---- MODULE Spec2Model ----
(***************************************************************************)
(* A model of bioproject_keyword_search.py: the keyword search over the    *)
(* esearch endpoint (search_in_bioproject), the per-identifier resolution  *)
(* with its bounded retry (convert_ids_to_accessions), the structural      *)
(* check of a fetched record (check_proper_entrez_response) and the        *)
(* orchestration and file writing of main.                                 *)
(*                                                                         *)
(* A Python str is a sequence of one-character strings, so that strip,     *)
(* startswith, split and str() are computed character by character.  A     *)
(* Python dict is a sequence of <<key, value>> pairs in insertion order.   *)
(* A record identifier and a keyword are opaque: each is one TLA+ string.  *)
(***************************************************************************)
EXTENDS Naturals, Sequences, FiniteSets, TLC

(***************************************************************************)
(* Bounds of the model.                                                    *)
(***************************************************************************)
\* The longest keyword vocabulary handed to search_in_bioproject.
MaxKeywords == 3
\* The longest idlist one esearch response carries.
MaxIdList == 2
\* The most lines of one efetch response (the pure-function specification).
MaxLines == 4

(***************************************************************************)
(* Python's str operations.                                                *)
(***************************************************************************)
\* The characters str.strip() removes (the ones the model's lines contain).
Whitespace == {" ", "\t", "\n", "\r"}

RECURSIVE LStrip(_)
LStrip(s) ==
    IF s # <<>> /\ Head(s) \in Whitespace THEN LStrip(Tail(s)) ELSE s

RECURSIVE RStrip(_)
RStrip(s) ==
    IF s # <<>> /\ s[Len(s)] \in Whitespace
    THEN RStrip(SubSeq(s, 1, Len(s) - 1))
    ELSE s

\* str.strip(): leading and trailing whitespace removed.
Strip(s) == RStrip(LStrip(s))

\* str.startswith(prefix).
StartsWith(s, prefix) ==
    /\ Len(prefix) <= Len(s)
    /\ \A k \in 1..Len(prefix) : s[k] = prefix[k]

\* str.find(sep), 1-based; 0 when sep does not occur.
RECURSIVE FindFrom(_, _, _)
FindFrom(s, sep, k) ==
    IF k + Len(sep) - 1 > Len(s) THEN 0
    ELSE IF SubSeq(s, k, k + Len(sep) - 1) = sep THEN k
    ELSE FindFrom(s, sep, k + 1)

Find(s, sep) == FindFrom(s, sep, 1)

\* str.split(sep) for a non-empty sep: every piece, cut at each
\* non-overlapping occurrence of sep, scanning from the left.
RECURSIVE PySplit(_, _)
PySplit(s, sep) ==
    LET p == Find(s, sep)
    IN  IF p = 0 THEN <<s>>
        ELSE <<SubSeq(s, 1, p - 1)>>
                 \o PySplit(SubSeq(s, p + Len(sep), Len(s)), sep)

\* repr() of a str holding no quote, backslash or control character.
PyRepr(s) == <<"'">> \o s \o <<"'">>

RECURSIVE PyJoinRepr(_)
PyJoinRepr(l) ==
    IF l = <<>> THEN <<>>
    ELSE IF Len(l) = 1 THEN PyRepr(l[1])
    ELSE PyRepr(l[1]) \o <<",", " ">> \o PyJoinRepr(Tail(l))

\* str() of a list of str.
PyStr(l) == <<"[">> \o PyJoinRepr(l) \o <<"]">>

(***************************************************************************)
(* Python's dict, in insertion order.                                      *)
(***************************************************************************)
DictKeys(d) == {d[k][1] : k \in 1..Len(d)}

DictHas(d, key) == key \in DictKeys(d)

\* d[key], for a key of d.
DictGet(d, key) == d[CHOOSE k \in 1..Len(d) : d[k][1] = key][2]

\* An assignment that leaves a present key with its old value.
DictSet_KeepFirst(d, key, value) ==
    IF key \in {d[k][1] : k \in 1..Len(d)} THEN d
    ELSE Append(d, <<key, value>>)

\* d[key] = value: a present key keeps its place and takes the new value.
DictSet(d, key, value) ==
    IF DictHas(d, key)
    THEN [k \in 1..Len(d) |-> IF d[k][1] = key THEN <<key, value>> ELSE d[k]]
    ELSE Append(d, <<key, value>>)

(***************************************************************************)
(* The marker prefixes and fixed texts of the program.                     *)
(***************************************************************************)
AbstractMarker == <<"1", ".", " ">>

AccessionMarker ==
    <<"B", "i", "o", "P", "r", "o", "j", "e", "c", "t", " ",
      "A", "c", "c", "e", "s", "s", "i", "o", "n", ":", " ">>

AccessionSeparator == <<":", " ">>

FailedToFetch ==
    <<"F", "a", "i", "l", "e", "d", " ", "t", "o", " ",
      "f", "e", "t", "c", "h">>

\* A retry loop of two attempts: range(2).
MaxTries_Two == 1 + 1

\* A retry loop of four attempts: range(4).
MaxTries_Four == 2 + 2

\* The attempts of the retry loop: range(3).
MaxTries == 3

(***************************************************************************)
(* check_proper_entrez_response and the parsing of one fetched record.     *)
(***************************************************************************)
\* [result for result in cleaned_result if result.startswith(prefix)]
LinesStartingWith(cleaned, prefix) ==
    SelectSeq(cleaned, LAMBDA result : StartsWith(result, prefix))

\* any([result.startswith(prefix) for result in cleaned_result])
AnyStartsWith(cleaned, prefix) ==
    \E k \in 1..Len(cleaned) : StartsWith(cleaned[k], prefix)

\* A check that wants the two marker lines first, in that order.
check_proper_first_lines(cleaned) ==
    /\ Len(cleaned) >= 2
    /\ StartsWith(cleaned[1], AbstractMarker)
    /\ StartsWith(cleaned[2], AccessionMarker)

check_proper_entrez_response(cleaned) ==
    IF ~AnyStartsWith(cleaned, AbstractMarker) THEN FALSE
    ELSE IF ~AnyStartsWith(cleaned, AccessionMarker) THEN FALSE
    ELSE TRUE

\* [result.strip() for result in entrez_result if result != "\n"]
RECURSIVE CleanResult(_)
CleanResult(raw) ==
    IF raw = <<>> THEN <<>>
    ELSE IF Head(raw) # <<"\n">>
         THEN <<Strip(Head(raw))>> \o CleanResult(Tail(raw))
         ELSE CleanResult(Tail(raw))

\* The last "1. " line of a cleaned result: [...][-1].
AbstractOf_Last(cleaned) ==
    LinesStartingWith(cleaned, AbstractMarker)[
        Len(LinesStartingWith(cleaned, AbstractMarker))]

\* The abstract of a valid cleaned result: the first "1. " line.
AbstractOf(cleaned) == LinesStartingWith(cleaned, AbstractMarker)[1]

\* The last piece of the accession line: split(": ")[-1].
SplitAccession_Last(line) ==
    PySplit(line, AccessionSeparator)[Len(PySplit(line, AccessionSeparator))]

\* The piece of the accession line the program keeps: split(": ")[1].
SplitAccession(line) == PySplit(line, AccessionSeparator)[2]

\* The accession of a valid cleaned result.
AccessionOf(cleaned) ==
    SplitAccession(LinesStartingWith(cleaned, AccessionMarker)[1])

(***************************************************************************)
(* The inputs of the model.                                                *)
(***************************************************************************)
\* Every sequence over S of length at most n.
SeqsUpTo(S, n) == UNION {[1..k -> S] : k \in 0..n}

\* Every ordering of the finite set S, as a sequence without repetition.
Orderings(S) ==
    {s \in [1..Cardinality(S) -> S] :
        \A a, b \in 1..Cardinality(S) : a # b => s[a] # s[b]}

\* The elements of a sequence.
Range(s) == {s[k] : k \in 1..Len(s)}

\* The default vocabulary of the program.
KEYWORDS ==
    <<"Faecal Microbiota Transplantation",
      "Fecal Microbiota Transplantation",
      "Fecal Microbiota Transplant",
      "Faecal Microbiota Transplant",
      "Fecal Microbiota",
      "Faecal Microbiota",
      "Fecal Microbiome",
      "Faecal Microbiome",
      "Faecal",
      "Fecal",
      "FMT">>

\* The vocabularies of the model: the leading keywords of KEYWORDS.
Vocabularies == {SubSeq(KEYWORDS, 1, n) : n \in 0..MaxKeywords}

\* The record identifiers the esearch endpoint answers with.
Ids == {"801993", "801992"}

\* The idlist of one esearch response: it may repeat an identifier.
IdLists == SeqsUpTo(Ids, MaxIdList)

\* The status codes of a failed esearch request.
BadStatus == {404, 500}

\* Lines of an efetch response, as handle.readlines() returns them.
LineAbstractA == <<"1", ".", " ", "a", "\n">>
LineAbstractB == <<"1", ".", " ", "b", "\n">>
LineAbstractPadded == <<" ", "1", ".", " ", "a", " ", "\n">>
LineAccessionP == AccessionMarker \o <<"P", "\n">>
LineAccessionQ == AccessionMarker \o <<"Q", ":", " ", "r", "\n">>
LineOther == <<"x", "\n">>
LineEmpty == <<"\n">>
LineSpaces == <<" ", " ", "\n">>
LineCrLf == <<"\r", "\n">>

RawLines ==
    {LineAbstractA, LineAbstractB, LineAbstractPadded, LineAccessionP,
     LineAccessionQ, LineOther, LineEmpty, LineSpaces, LineCrLf}

\* Every efetch response of at most MaxLines lines.
RawResponses == SeqsUpTo(RawLines, MaxLines)

\* The efetch responses of the whole-run specification.
Responses ==
    { <<LineAbstractA, LineEmpty, LineAccessionP>>,
      <<LineAccessionP, LineAbstractB, LineAbstractA>>,
      <<LineOther, LineAccessionQ, LineAbstractPadded>>,
      <<LineAbstractA, LineSpaces, LineOther>>,
      <<LineEmpty>> }

(***************************************************************************)
(* The state of one run of main.                                           *)
(***************************************************************************)
VARIABLES
    pc,                    \* where the run is: search, fetch, parse, write,
                           \* done, exited
    keywords,              \* args.keywords, the vocabulary
    kw,                    \* the keywords whose search request has ended
    results_list,          \* search_in_bioproject's running collection
    status_code,           \* response.status_code of the last search (0: none)
    search_requests,       \* requests.get calls made so far
    found,                 \* identifiers the responses carried, repeats counted
    esearch,               \* the answer of the endpoint per keyword, in a
                           \* specification that fixes the answers ahead;
                           \* <<>> where each request is answered as made
    bioproject_ids,        \* main's bioproject_ids, once search returned
    id_idx,                \* the place in bioproject_ids of the outer loop
    i,                     \* the retry loop's i
    entrez_result,         \* the lines of the last successful fetch
    cleaned_result,        \* the last cleaned result
    bioproject_accessions, \* the result map
    failed_bioprojects,    \* the failure map
    efetch_calls,          \* Entrez.efetch calls made, per place of the list
    efetch_ok,             \* Entrez.efetch calls that returned, per place
    map_writes,            \* the writes to either map, per place: each is
                           \* <<"result" or "failed", key, value>>
    output_file,           \* the output file
    failed_file            \* the file of failed identifiers

vars ==
    <<pc, keywords, kw, results_list, status_code, search_requests, found,
      esearch, bioproject_ids, id_idx, i, entrez_result, cleaned_result,
      bioproject_accessions, failed_bioprojects, efetch_calls, efetch_ok,
      map_writes, output_file, failed_file>>

searchVars ==
    <<keywords, kw, results_list, status_code, search_requests, found,
      esearch>>

fetchVars ==
    <<bioproject_ids, id_idx, i, entrez_result, cleaned_result,
      bioproject_accessions, failed_bioprojects, efetch_calls, efetch_ok,
      map_writes>>

fileVars == <<output_file, failed_file>>

\* A file that was not opened.
NoFile == [written |-> FALSE, rows |-> <<>>]

\* The state main starts from.
Init ==
    /\ pc = "search"
    /\ keywords \in Vocabularies
    /\ kw = 0
    /\ results_list = <<>>
    /\ status_code = 0
    /\ search_requests = 0
    /\ found = 0
    /\ esearch = <<>>
    /\ bioproject_ids = <<>>
    /\ id_idx = 1
    /\ i = 0
    /\ entrez_result = <<>>
    /\ cleaned_result = <<>>
    /\ bioproject_accessions = <<>>
    /\ failed_bioprojects = <<>>
    /\ efetch_calls = <<>>
    /\ efetch_ok = <<>>
    /\ map_writes = <<>>
    /\ output_file = NoFile
    /\ failed_file = NoFile

(***************************************************************************)
(* search_in_bioproject.                                                   *)
(***************************************************************************)
\* A keyword loop that ends after its first keyword.
SearchLoopDone_AfterFirst == kw >= 1

\* The keyword loop has run through the vocabulary.
SearchLoopDone == kw = Len(keywords)

\* A loop body that assigns the idlist to the collection: results_list =
\* idlist in place of results_list.extend(idlist).
SearchOkWith_Assign(idlist) ==
    /\ pc = "search"
    /\ kw # Len(keywords)
    /\ results_list' = idlist
    /\ found' = found + Len(idlist)
    /\ status_code' = 200
    /\ search_requests' = search_requests + 1
    /\ kw' = kw + 1
    /\ UNCHANGED <<pc, keywords, esearch>>
    /\ UNCHANGED <<bioproject_ids, id_idx, i, entrez_result, cleaned_result,
                   bioproject_accessions, failed_bioprojects, efetch_calls,
                   efetch_ok, map_writes>>
    /\ UNCHANGED <<output_file, failed_file>>

\* requests.get answers 200 with the idlist: it is appended to the
\* collection.
SearchOkWith(idlist) ==
    /\ pc = "search"
    /\ ~SearchLoopDone
    /\ results_list' = results_list \o idlist
    /\ found' = found + Len(idlist)
    /\ status_code' = 200
    /\ search_requests' = search_requests + 1
    /\ kw' = kw + 1
    /\ UNCHANGED <<pc, keywords, esearch>>
    /\ UNCHANGED fetchVars
    /\ UNCHANGED fileVars

\* requests.get answers 200, with any idlist.
SearchOk == \E idlist \in IdLists : SearchOkWith(idlist)

\* A failed request that is reported and skipped: the loop goes on.
SearchFails_Continue ==
    /\ pc = "search"
    /\ kw # Len(keywords)
    /\ \E code \in BadStatus : status_code' = code
    /\ search_requests' = search_requests + 1
    /\ kw' = kw + 1
    /\ UNCHANGED <<pc, keywords, results_list, found, esearch>>
    /\ UNCHANGED <<bioproject_ids, id_idx, i, entrez_result, cleaned_result,
                   bioproject_accessions, failed_bioprojects, efetch_calls,
                   efetch_ok, map_writes>>
    /\ UNCHANGED <<output_file, failed_file>>

\* requests.get answers the status, which is not 200: exit(1).
SearchFailsWith(code) ==
    /\ pc = "search"
    /\ ~SearchLoopDone
    /\ status_code' = code
    /\ search_requests' = search_requests + 1
    /\ pc' = "exited"
    /\ UNCHANGED <<keywords, kw, results_list, found, esearch>>
    /\ UNCHANGED fetchVars
    /\ UNCHANGED fileVars

\* requests.get answers another status than 200.
SearchFails == \E code \in BadStatus : SearchFailsWith(code)

\* The collection returned as gathered.
RemoveDuplicates_Keep(l) == {l}

\* list(set(results_list)): each identifier once, in an order the set picks.
RemoveDuplicates(l) == Orderings(Range(l))

\* The loop is over: the collection is deduplicated and returned to main,
\* which hands it to convert_ids_to_accessions; the outer loop starts.
SearchReturn ==
    /\ pc = "search"
    /\ SearchLoopDone
    /\ \E unique \in RemoveDuplicates(results_list) :
          /\ results_list' = unique
          /\ bioproject_ids' = unique
          /\ efetch_calls' = [k \in 1..Len(unique) |-> 0]
          /\ efetch_ok' = [k \in 1..Len(unique) |-> 0]
          /\ map_writes' = [k \in 1..Len(unique) |-> <<>>]
    /\ id_idx' = 1
    /\ i' = 0
    /\ pc' = "fetch"
    /\ UNCHANGED <<keywords, kw, status_code, search_requests, found,
                   esearch>>
    /\ UNCHANGED <<entrez_result, cleaned_result, bioproject_accessions,
                   failed_bioprojects>>
    /\ UNCHANGED fileVars

(***************************************************************************)
(* convert_ids_to_accessions.                                              *)
(***************************************************************************)
\* The outer loop has an identifier to resolve.
HasIdentifier == id_idx <= Len(bioproject_ids)

bioproject_id == bioproject_ids[id_idx]

\* Where the outer loop stands after the retry loop's else clause: its
\* break leaves the outer loop.
AfterExhausted == Len(bioproject_ids) + 1

\* Entrez.efetch (or readlines) raises: the next attempt, or, after the
\* last one, the else clause of the retry loop.
FetchRaises ==
    /\ pc = "fetch"
    /\ HasIdentifier
    /\ efetch_calls' = [efetch_calls EXCEPT ![id_idx] = @ + 1]
    /\ IF i + 1 < MaxTries
       THEN /\ i' = i + 1
            /\ UNCHANGED <<id_idx, failed_bioprojects, map_writes>>
       ELSE /\ failed_bioprojects' =
                   DictSet(failed_bioprojects, bioproject_id, FailedToFetch)
            /\ map_writes' =
                   [map_writes EXCEPT ![id_idx] =
                       Append(@, <<"failed", bioproject_id, FailedToFetch>>)]
            /\ id_idx' = AfterExhausted
            /\ UNCHANGED i
    /\ UNCHANGED <<pc, bioproject_ids, entrez_result, cleaned_result,
                   bioproject_accessions, efetch_ok>>
    /\ UNCHANGED searchVars
    /\ UNCHANGED fileVars

\* A retry loop without its break: a fetch that returned is followed by the
\* next attempt.
FetchOk_NoBreak ==
    /\ pc = "fetch"
    /\ id_idx <= Len(bioproject_ids)
    /\ \E raw \in Responses : entrez_result' = raw
    /\ efetch_calls' = [efetch_calls EXCEPT ![id_idx] = @ + 1]
    /\ efetch_ok' = [efetch_ok EXCEPT ![id_idx] = @ + 1]
    /\ IF i + 1 < MaxTries
       THEN /\ i' = i + 1
            /\ pc' = "fetch"
       ELSE /\ pc' = "parse"
            /\ UNCHANGED i
    /\ UNCHANGED <<bioproject_ids, id_idx, cleaned_result,
                   bioproject_accessions, failed_bioprojects, map_writes>>
    /\ UNCHANGED <<keywords, kw, results_list, status_code, search_requests,
                   found, esearch>>
    /\ UNCHANGED <<output_file, failed_file>>

\* Entrez.efetch returns and its lines are read: break.
FetchOk ==
    /\ pc = "fetch"
    /\ HasIdentifier
    /\ \E raw \in Responses : entrez_result' = raw
    /\ efetch_calls' = [efetch_calls EXCEPT ![id_idx] = @ + 1]
    /\ efetch_ok' = [efetch_ok EXCEPT ![id_idx] = @ + 1]
    /\ pc' = "parse"
    /\ UNCHANGED <<bioproject_ids, id_idx, i, cleaned_result,
                   bioproject_accessions, failed_bioprojects, map_writes>>
    /\ UNCHANGED searchVars
    /\ UNCHANGED fileVars

\* A failure recorded with the fixed text of a failed fetch.
StoreFailed_FixedText(failed, id, cleaned) == DictSet(failed, id, FailedToFetch)

\* The failure map after a cleaned result that is not valid.
StoreFailed(failed, id, cleaned) == DictSet(failed, id, PyStr(cleaned))

\* A parse whose failure write is not under the else: a valid record is
\* stored and recorded as failed as well.
Parse_NoElse ==
    /\ pc = "parse"
    /\ \E cleaned \in {CleanResult(entrez_result)} :
       /\ cleaned_result' = cleaned
       /\ failed_bioprojects' =
             StoreFailed(failed_bioprojects, bioproject_id, cleaned)
       /\ IF check_proper_entrez_response(cleaned)
          THEN \E abstract \in {AbstractOf(cleaned)},
                  bioproject_accession \in {AccessionOf(cleaned)} :
               /\ bioproject_accessions' =
                      DictSet(bioproject_accessions,
                              bioproject_accession, abstract)
               /\ map_writes' =
                      [map_writes EXCEPT ![id_idx] =
                          @ \o << <<"result", bioproject_accession, abstract>>,
                                  <<"failed", bioproject_id, PyStr(cleaned)>> >>]
          ELSE /\ map_writes' =
                      [map_writes EXCEPT ![id_idx] =
                          Append(@, <<"failed", bioproject_id, PyStr(cleaned)>>)]
               /\ UNCHANGED bioproject_accessions
       /\ id_idx' = id_idx + 1
       /\ i' = IF id_idx + 1 <= Len(bioproject_ids) THEN 0 ELSE i
       /\ pc' = "fetch"
       /\ UNCHANGED <<bioproject_ids, entrez_result, efetch_calls, efetch_ok>>
       /\ UNCHANGED <<keywords, kw, results_list, status_code, search_requests,
                      found, esearch>>
       /\ UNCHANGED <<output_file, failed_file>>

\* The fetched lines are cleaned, checked and stored; the outer loop moves
\* to the next identifier.
Parse ==
    /\ pc = "parse"
    /\ \E cleaned \in {CleanResult(entrez_result)} :
       /\ cleaned_result' = cleaned
       /\ IF check_proper_entrez_response(cleaned)
          THEN \E abstract \in {AbstractOf(cleaned)},
                  bioproject_accession \in {AccessionOf(cleaned)} :
               /\ bioproject_accessions' =
                      DictSet(bioproject_accessions,
                              bioproject_accession, abstract)
               /\ map_writes' =
                      [map_writes EXCEPT ![id_idx] =
                          Append(@, <<"result", bioproject_accession,
                                      abstract>>)]
               /\ UNCHANGED failed_bioprojects
          ELSE /\ failed_bioprojects' =
                      StoreFailed(failed_bioprojects, bioproject_id, cleaned)
               /\ map_writes' =
                      [map_writes EXCEPT ![id_idx] =
                          Append(@, <<"failed", bioproject_id, PyStr(cleaned)>>)]
               /\ UNCHANGED bioproject_accessions
       /\ id_idx' = id_idx + 1
       /\ i' = IF id_idx + 1 <= Len(bioproject_ids) THEN 0 ELSE i
       /\ pc' = "fetch"
       /\ UNCHANGED <<bioproject_ids, entrez_result, efetch_calls, efetch_ok>>
       /\ UNCHANGED searchVars
       /\ UNCHANGED fileVars

\* The outer loop is over: both maps are returned to main.
ConvertReturn ==
    /\ pc = "fetch"
    /\ ~HasIdentifier
    /\ pc' = "write"
    /\ UNCHANGED searchVars
    /\ UNCHANGED fetchVars
    /\ UNCHANGED fileVars

(***************************************************************************)
(* main: the files.                                                        *)
(***************************************************************************)
\* The fixed base of a record's url, kept as one token.
UrlBase == <<"https://www.ncbi.nlm.nih.gov/bioproject/">>

OutputHeader == <<"study_id", "desc", "url">>

OutputRows(accessions) ==
    [k \in 1..Len(accessions) |->
        <<accessions[k][1], accessions[k][2], UrlBase \o accessions[k][1]>>]

\* main writes the output file and, when an identifier failed, the file of
\* failed identifiers.
Write ==
    /\ pc = "write"
    /\ output_file' =
          [written |-> TRUE,
           rows |-> <<OutputHeader>> \o OutputRows(bioproject_accessions)]
    /\ failed_file' =
          IF Len(failed_bioprojects) > 0
          THEN [written |-> TRUE, rows |-> failed_bioprojects]
          ELSE failed_file
    /\ pc' = "done"
    /\ UNCHANGED searchVars
    /\ UNCHANGED fetchVars

Next ==
    \/ SearchOk
    \/ SearchFails
    \/ SearchReturn
    \/ FetchRaises
    \/ FetchOk
    \/ Parse
    \/ ConvertReturn
    \/ Write

Spec == Init /\ [][Next]_vars

(***************************************************************************)
(* The parsing of one fetched record, over every response of at most       *)
(* MaxLines lines: the run has searched one keyword, got one identifier    *)
(* and read its record.                                                    *)
(***************************************************************************)
InitParse ==
    /\ pc = "parse"
    /\ keywords = SubSeq(KEYWORDS, 1, 1)
    /\ kw = 1
    /\ \E id \in Ids :
          /\ results_list = <<id>>
          /\ bioproject_ids = <<id>>
    /\ status_code = 200
    /\ search_requests = 1
    /\ found = 1
    /\ esearch = <<>>
    /\ id_idx = 1
    /\ i = 0
    /\ entrez_result \in RawResponses
    /\ cleaned_result = <<>>
    /\ bioproject_accessions = <<>>
    /\ failed_bioprojects = <<>>
    /\ efetch_calls = <<1>>
    /\ efetch_ok = <<1>>
    /\ map_writes = << <<>> >>
    /\ output_file = NoFile
    /\ failed_file = NoFile

NextParse ==
    \/ Parse
    \/ ConvertReturn
    \/ Write

SpecParse == InitParse /\ [][NextParse]_vars

(***************************************************************************)
(* Vocabulary of the properties.                                           *)
(***************************************************************************)
\* The places of bioproject_ids.
Places == 1..Len(bioproject_ids)

\* The step is an Entrez.efetch call for the identifier at id_idx that
\* raises.
RaisingFetchStep ==
    /\ pc = "fetch"
    /\ id_idx \in Places
    /\ efetch_calls'[id_idx] = efetch_calls[id_idx] + 1
    /\ efetch_ok' = efetch_ok

\* The step parses the record fetched for the identifier at id_idx.
ParseStep == pc = "parse" /\ pc' # "parse"

\* A cleaned result holds a line that begins with the marker.
HasMarkerLine(cleaned, marker) ==
    \E k \in 1..Len(cleaned) :
        /\ Len(cleaned[k]) >= Len(marker)
        /\ SubSeq(cleaned[k], 1, Len(marker)) = marker

\* A cleaned result is well-formed: it holds both marker lines.
WellFormed(cleaned) ==
    /\ HasMarkerLine(cleaned, <<"1", ".", " ">>)
    /\ HasMarkerLine(cleaned, AccessionMarker)

\* No Entrez.efetch call is made for a place whose call once returned.
NoFetchAfterSuccess ==
    \A k \in Places :
        efetch_ok[k] >= 1 =>
            /\ k \in DOMAIN efetch_calls'
            /\ efetch_calls'[k] = efetch_calls[k]

\* A sequence holds no element twice.
NoDuplicates(l) ==
    \A a, b \in 1..Len(l) : a # b => l[a] # l[b]

\* search_in_bioproject has returned its collection to main.
SearchReturned == pc \in {"fetch", "parse", "write", "done"}

\* An Entrez.efetch call was made.
FetchIssued == \E k \in DOMAIN efetch_calls : efetch_calls[k] > 0

(***************************************************************************)
(* C1: when all 3 fetch attempts for an identifier raise, the identifier   *)
(* is recorded in the failure map and the resolver moves on: once          *)
(* convert_ids_to_accessions has returned, every identifier after the      *)
(* exhausted one was fetched as well.  The break of the retry loop's else  *)
(* clause leaves the outer loop, so this fails.                            *)
(***************************************************************************)
C1_ExhaustedDoesNotInterrupt ==
    pc \in {"write", "done"} =>
        \A k \in Places :
            (efetch_calls[k] = 3 /\ efetch_ok[k] = 0) =>
                /\ DictHas(failed_bioprojects, bioproject_ids[k])
                /\ \A m \in Places : m > k => efetch_calls[m] >= 1

(***************************************************************************)
(* C2: an identifier whose fetch raises on every attempt is given exactly  *)
(* 3 attempts: a raise before the third leaves the resolver at the same    *)
(* identifier with both maps as they were; the third raise records         *)
(* identifier -> "Failed to fetch", skips validation (nothing is cleaned   *)
(* or parsed), adds nothing to the result map and ends the attempts for    *)
(* that identifier.                                                        *)
(***************************************************************************)
C2_ExhaustedAfterThreeAttempts ==
    [][RaisingFetchStep =>
          IF efetch_calls'[id_idx] < 3
          THEN /\ id_idx' = id_idx
               /\ pc' = "fetch"
               /\ failed_bioprojects' = failed_bioprojects
               /\ bioproject_accessions' = bioproject_accessions
          ELSE /\ efetch_calls'[id_idx] = 3
               /\ id_idx' # id_idx
               /\ pc' = "fetch"
               /\ DictHas(failed_bioprojects', bioproject_ids[id_idx])
               /\ DictGet(failed_bioprojects', bioproject_ids[id_idx])
                      = FailedToFetch
               /\ bioproject_accessions' = bioproject_accessions
               /\ cleaned_result' = cleaned_result
               /\ entrez_result' = entrez_result]_vars

\* An identifier was given up after three raising attempts.
C2_Witness ==
    \E k \in Places :
        /\ efetch_calls[k] = 3
        /\ efetch_ok[k] = 0
        /\ DictHas(failed_bioprojects, bioproject_ids[k])
        /\ DictGet(failed_bioprojects, bioproject_ids[k]) = FailedToFetch
        /\ bioproject_accessions = <<>>

(***************************************************************************)
(* C3: when the fetch of an identifier raises on the first k-1 attempts    *)
(* (k = 2 or 3) and returns a well-formed record on attempt k, parsing     *)
(* puts an entry for the record's accession in the result map, leaves the  *)
(* identifier out of the failure map, and no fetch is made for the         *)
(* identifier after the one that returned.                                 *)
(***************************************************************************)
C3_RetrySuccess ==
    [][/\ NoFetchAfterSuccess
       /\ (/\ ParseStep
           /\ efetch_calls[id_idx] \in {2, 3}
           /\ WellFormed(cleaned_result'))
          => /\ DictHas(bioproject_accessions', AccessionOf(cleaned_result'))
             /\ ~DictHas(failed_bioprojects', bioproject_ids[id_idx])
             /\ efetch_ok[id_idx] = 1
             /\ i = efetch_calls[id_idx] - 1]_vars

\* An identifier was resolved on its second or third attempt.
C3_Witness ==
    \E k \in Places :
        /\ k < id_idx
        /\ efetch_calls[k] \in {2, 3}
        /\ efetch_ok[k] = 1
        /\ ~DictHas(failed_bioprojects, bioproject_ids[k])
        /\ Len(bioproject_accessions) >= 1

(***************************************************************************)
(* C4: a search request answered with a status other than 200 ends the     *)
(* run at once: the failing keyword got one request (no retry), no later   *)
(* keyword gets one, nothing is returned to main, and no step follows.     *)
(***************************************************************************)
C4_Non200IsFatal ==
    [][/\ pc # "exited"
       /\ status_code' \notin {0, 200} =>
             /\ pc' = "exited"
             /\ search_requests' = kw' + 1
             /\ kw' < Len(keywords')
             /\ bioproject_ids' = <<>>
             /\ ~FetchIssued']_vars

\* The second of three keywords failed after the first gave identifiers.
C4_Witness ==
    /\ pc = "exited"
    /\ status_code = 500
    /\ kw = 1
    /\ Len(keywords) = 3
    /\ search_requests = 2
    /\ results_list # <<>>

(***************************************************************************)
(* C5: for a non-empty vocabulary whose requests all answer 200, the       *)
(* collection search_in_bioproject returns holds no identifier twice.      *)
(***************************************************************************)
C5_NoDuplicateIdentifiers ==
    (SearchReturned /\ Len(keywords) >= 1) => NoDuplicates(bioproject_ids)

\* The responses carried more identifiers than there are distinct ones.
C5_Witness ==
    /\ SearchReturned
    /\ Len(keywords) >= 2
    /\ found > Len(bioproject_ids)
    /\ Len(bioproject_ids) = 2

(***************************************************************************)
(* Vocabulary of the properties on one parsed record.                      *)
(***************************************************************************)
\* A line begins with the marker.
BeginsWith(line, marker) ==
    /\ Len(line) >= Len(marker)
    /\ SubSeq(line, 1, Len(marker)) = marker

\* The first line of a cleaned result that begins with the marker.
FirstMarkerLine(cleaned, marker) ==
    cleaned[CHOOSE k \in 1..Len(cleaned) :
                /\ BeginsWith(cleaned[k], marker)
                /\ \A j \in 1..(k - 1) : ~BeginsWith(cleaned[j], marker)]

\* ": " stands at place p of s.
SeparatorAt(s, p) == p + 1 <= Len(s) /\ s[p] = ":" /\ s[p + 1] = " "

\* The place of the first ": " of s; 0 when s holds none.
FirstSeparator(s) ==
    IF \E p \in 1..Len(s) : SeparatorAt(s, p)
    THEN CHOOSE p \in 1..Len(s) :
             /\ SeparatorAt(s, p)
             /\ \A q \in 1..(p - 1) : ~SeparatorAt(s, q)
    ELSE 0

\* All of s strictly after its first ": ".
RemainderAfterFirstSeparator(s) == SubSeq(s, FirstSeparator(s) + 2, Len(s))

\* s up to, and without, its first ": "; all of s when it holds none.
UpToSeparator(s) ==
    IF FirstSeparator(s) = 0 THEN s ELSE SubSeq(s, 1, FirstSeparator(s) - 1)

\* The record of the only identifier has been parsed.
Parsed == pc # "parse"

(***************************************************************************)
(* C6: check_proper_entrez_response is true exactly when the cleaned       *)
(* result holds a line starting with "1. " and a line starting with        *)
(* "BioProject Accession: ", wherever they stand and whatever else the     *)
(* result holds; the record then goes to the result map, and to the        *)
(* failure map otherwise.                                                  *)
(***************************************************************************)
C6_ValidIffBothMarkers ==
    Parsed =>
        /\ check_proper_entrez_response(cleaned_result)
               = WellFormed(cleaned_result)
        /\ WellFormed(cleaned_result) =>
               /\ Len(bioproject_accessions) = 1
               /\ failed_bioprojects = <<>>
        /\ ~WellFormed(cleaned_result) =>
               /\ bioproject_accessions = <<>>
               /\ Len(failed_bioprojects) = 1

\* A record found valid with the accession line first, another line next
\* and the abstract line last.
C6_Witness ==
    /\ Parsed
    /\ Len(cleaned_result) = 3
    /\ BeginsWith(cleaned_result[1], AccessionMarker)
    /\ cleaned_result[2] = <<"x">>
    /\ BeginsWith(cleaned_result[3], AbstractMarker)
    /\ Len(bioproject_accessions) = 1

(***************************************************************************)
(* C7, as claimed: the key of the result map is all of the accession line  *)
(* strictly after its first ": ", a later ": " included.  split(": ")      *)
(* cuts at every ": ", so this fails on a line with a second one.          *)
(***************************************************************************)
C7_KeyIsWholeRemainder ==
    (Parsed /\ WellFormed(cleaned_result)) =>
        bioproject_accessions[1][1] =
            RemainderAfterFirstSeparator(
                FirstMarkerLine(cleaned_result, AccessionMarker))

(***************************************************************************)
(* C7, amended: the key of the result map is the part of the accession     *)
(* line after its first ": " and up to, without, the next ": " of the      *)
(* line; it is the whole remainder when the remainder holds no ": ".       *)
(***************************************************************************)
C7_KeyIsUpToNextSeparator ==
    (Parsed /\ WellFormed(cleaned_result)) =>
        bioproject_accessions[1][1] =
            UpToSeparator(
                RemainderAfterFirstSeparator(
                    FirstMarkerLine(cleaned_result, AccessionMarker)))

\* The accession line "BioProject Accession: Q: r" gave the key "Q".
C7_Witness ==
    /\ Parsed
    /\ WellFormed(cleaned_result)
    /\ FirstMarkerLine(cleaned_result, AccessionMarker)
           = AccessionMarker \o <<"Q", ":", " ", "r">>
    /\ bioproject_accessions[1][1] = <<"Q">>

(***************************************************************************)
(* C8: when a fetch returned and the cleaned result is not well-formed,    *)
(* the identifier goes to the failure map with the stringified cleaned     *)
(* result, the result map is left alone, the one fetch that returned is   *)
(* the last for that identifier, and the resolver moves to the next one.   *)
(***************************************************************************)
C8_InvalidRecordedNotRetried ==
    [][/\ NoFetchAfterSuccess
       /\ (ParseStep /\ ~WellFormed(cleaned_result'))
          => /\ DictHas(failed_bioprojects', bioproject_ids[id_idx])
             /\ DictGet(failed_bioprojects', bioproject_ids[id_idx])
                    = PyStr(cleaned_result')
             /\ bioproject_accessions' = bioproject_accessions
             /\ efetch_ok[id_idx] = 1
             /\ efetch_calls' = efetch_calls
             /\ efetch_ok' = efetch_ok
             /\ id_idx' = id_idx + 1
             /\ pc' = "fetch"]_vars

\* The first identifier failed validation with ['1. a', '', 'x'] after one
\* fetch, and the second one has been fetched.
C8_Witness ==
    /\ Len(bioproject_ids) = 2
    /\ efetch_calls[1] = 1
    /\ efetch_ok[1] = 1
    /\ DictHas(failed_bioprojects, bioproject_ids[1])
    /\ DictGet(failed_bioprojects, bioproject_ids[1]) =
           <<"[", "'", "1", ".", " ", "a", "'", ",", " ", "'", "'", ",", " ",
             "'", "x", "'", "]">>
    /\ bioproject_accessions = <<>>
    /\ efetch_calls[2] >= 1

(***************************************************************************)
(* C9: a fetch is issued, and a file written, only after every keyword     *)
(* got its search request, all answered 200, and the collection was        *)
(* deduplicated; a run whose search aborted issues no fetch and writes no  *)
(* file.                                                                   *)
(***************************************************************************)
C9_SearchCompletesBeforeFetch ==
    /\ (FetchIssued \/ output_file.written \/ failed_file.written) =>
           /\ SearchReturned
           /\ kw = Len(keywords)
           /\ search_requests = Len(keywords)
           /\ status_code \in {0, 200}
           /\ NoDuplicates(bioproject_ids)
    /\ (pc = "exited" \/ status_code \notin {0, 200}) =>
           /\ ~FetchIssued
           /\ ~output_file.written
           /\ ~failed_file.written

\* A fetch was issued after three keywords were searched and their
\* identifiers deduplicated.
C9_Witness ==
    /\ FetchIssued
    /\ Len(keywords) = 3
    /\ search_requests = 3
    /\ found > Len(bioproject_ids)

(***************************************************************************)
(* C10: every line of the cleaned result is whitespace-trimmed and none    *)
(* is blank.  The filter compares the raw line with "\n" before it is      *)
(* stripped, so a whitespace-only line stays, as an empty line: this       *)
(* fails.                                                                  *)
(***************************************************************************)
C10_CleanedLinesNotBlank ==
    \A k \in 1..Len(cleaned_result) :
        /\ cleaned_result[k] # <<>>
        /\ cleaned_result[k][1] \notin {" ", "\t", "\n", "\r"}
        /\ cleaned_result[k][Len(cleaned_result[k])]
               \notin {" ", "\t", "\n", "\r"}

(***************************************************************************)
(* C11: when a valid cleaned result holds several "1. " lines or several   *)
(* "BioProject Accession: " lines, the entry is built from the first of    *)
(* each: the description is the first "1. " line and the key is cut from   *)
(* the first accession line; later marker lines are ignored.               *)
(***************************************************************************)
C11_FirstMarkerLinesUsed ==
    (Parsed /\ WellFormed(cleaned_result)) =>
        /\ bioproject_accessions[1][2] =
               FirstMarkerLine(cleaned_result, AbstractMarker)
        /\ bioproject_accessions[1][1] =
               UpToSeparator(
                   RemainderAfterFirstSeparator(
                       FirstMarkerLine(cleaned_result, AccessionMarker)))

\* Two accession lines (Q before P) and two abstract lines (b before a)
\* gave the entry Q -> "1. b".
C11_Witness ==
    /\ Parsed
    /\ cleaned_result =
           << AccessionMarker \o <<"Q", ":", " ", "r">>,
              <<"1", ".", " ", "b">>,
              AccessionMarker \o <<"P">>,
              <<"1", ".", " ", "a">> >>
    /\ bioproject_accessions = << << <<"Q">>, <<"1", ".", " ", "b">> >> >>

(***************************************************************************)
(* Vocabulary of the properties on the two maps.                           *)
(***************************************************************************)
\* The writes of place k to the result map.
ResultWrites(k) == SelectSeq(map_writes[k], LAMBDA w : w[1] = "result")

\* The writes of place k to the failure map.
FailedWrites(k) == SelectSeq(map_writes[k], LAMBDA w : w[1] = "failed")

\* The places that wrote the accession to the result map.
WritersOf(accession) ==
    {k \in Places : \E w \in 1..Len(ResultWrites(k)) :
                        ResultWrites(k)[w][2] = accession}

\* The greatest element of a non-empty set of numbers.
Greatest(S) == CHOOSE m \in S : \A n \in S : n <= m

\* The description the place wrote last for the accession.
LastWritten(k, accession) ==
    LET writes == SelectSeq(ResultWrites(k), LAMBDA w : w[2] = accession)
    IN  writes[Len(writes)][3]

(***************************************************************************)
(* C12: the result map never holds two entries with the same accession;    *)
(* an accession that identifiers resolved to has exactly one entry, and    *)
(* its description is the abstract line of the identifier processed last   *)
(* among them.                                                             *)
(***************************************************************************)
C12_LastWriteWins ==
    /\ \A a, b \in 1..Len(bioproject_accessions) :
           a # b => bioproject_accessions[a][1] # bioproject_accessions[b][1]
    /\ \A k \in Places : \A w \in 1..Len(ResultWrites(k)) :
           DictHas(bioproject_accessions, ResultWrites(k)[w][2])
    /\ \A e \in 1..Len(bioproject_accessions) :
           LET accession == bioproject_accessions[e][1]
           IN  /\ WritersOf(accession) # {}
               /\ bioproject_accessions[e][2] =
                      LastWritten(Greatest(WritersOf(accession)), accession)

\* Both identifiers resolved to P, the first with "1. a", the second with
\* "1. b": the one entry of the result map is P -> "1. b".
C12_Witness ==
    /\ Len(bioproject_ids) = 2
    /\ map_writes[1] = << <<"result", <<"P">>, <<"1", ".", " ", "a">>>> >>
    /\ map_writes[2] = << <<"result", <<"P">>, <<"1", ".", " ", "b">>>> >>
    /\ bioproject_accessions = << << <<"P">>, <<"1", ".", " ", "b">> >> >>

(***************************************************************************)
(* search_in_bioproject as a function of its vocabulary and of the answer  *)
(* the endpoint gives to each keyword.                                     *)
(***************************************************************************)
\* What the function comes to on a status that is not 200, whatever was
\* collected: exit(1), nothing returned.
OnBadStatus_ReturnCollected(collected) ==
    [exited |-> FALSE, returns |-> RemoveDuplicates(collected)]

OnBadStatus(collected) == [exited |-> TRUE, returns |-> {}]

\* The keyword loop from the keywords left, with the identifiers collected
\* so far; returns holds every list the function may return.
RECURSIVE SearchFrom(_, _, _)
SearchFrom(kws, answers, collected) ==
    IF kws = <<>>
    THEN [exited |-> FALSE, returns |-> RemoveDuplicates(collected)]
    ELSE IF answers[Head(kws)].status_code = 200
         THEN SearchFrom(Tail(kws), answers,
                         collected \o answers[Head(kws)].idlist)
         ELSE OnBadStatus(collected)

search_in_bioproject(kws, answers) == SearchFrom(kws, answers, <<>>)

(***************************************************************************)
(* The search with the answers fixed per keyword, over every ordering of   *)
(* every set of the leading keywords.                                      *)
(***************************************************************************)
\* The answers of the endpoint to one keyword.
PinnedAnswers ==
    { [status_code |-> 200, idlist |-> <<>>],
      [status_code |-> 200, idlist |-> <<"801993">>],
      [status_code |-> 200, idlist |-> <<"801992", "801993">>],
      [status_code |-> 200, idlist |-> <<"801992", "801992">>],
      [status_code |-> 500, idlist |-> <<>>] }

\* Every ordering of every set of the leading keywords of KEYWORDS.
OrderedVocabularies ==
    UNION {Orderings(S) : S \in SUBSET Range(SubSeq(KEYWORDS, 1, MaxKeywords))}

InitSearch ==
    /\ pc = "search"
    /\ keywords \in OrderedVocabularies
    /\ esearch \in [Range(keywords) -> PinnedAnswers]
    /\ kw = 0
    /\ results_list = <<>>
    /\ status_code = 0
    /\ search_requests = 0
    /\ found = 0
    /\ bioproject_ids = <<>>
    /\ id_idx = 1
    /\ i = 0
    /\ entrez_result = <<>>
    /\ cleaned_result = <<>>
    /\ bioproject_accessions = <<>>
    /\ failed_bioprojects = <<>>
    /\ efetch_calls = <<>>
    /\ efetch_ok = <<>>
    /\ map_writes = <<>>
    /\ output_file = NoFile
    /\ failed_file = NoFile

\* The answer fixed for the keyword the loop is at.
Answer == esearch[keywords[kw + 1]]

SearchOkPinned ==
    /\ pc = "search"
    /\ kw < Len(keywords)
    /\ Answer.status_code = 200
    /\ SearchOkWith(Answer.idlist)

SearchFailsPinned ==
    /\ pc = "search"
    /\ kw < Len(keywords)
    /\ Answer.status_code # 200
    /\ SearchFailsWith(Answer.status_code)

NextSearch ==
    \/ SearchOkPinned
    \/ SearchFailsPinned
    \/ SearchReturn

SpecSearch == InitSearch /\ [][NextSearch]_vars

\* search_in_bioproject has ended, by a return or by exit(1).
SearchEnded == pc = "exited" \/ SearchReturned

(***************************************************************************)
(* C13: the outcome of search_in_bioproject does not depend on the order   *)
(* of the vocabulary: with the same answer per keyword, the search of      *)
(* every ordering of the vocabulary exits exactly when the run exits, and  *)
(* otherwise returns the identifiers the run returns.                      *)
(***************************************************************************)
C13_OrderIndependent ==
    SearchEnded =>
        \A ordering \in Orderings(Range(keywords)) :
            LET other == search_in_bioproject(ordering, esearch)
            IN  /\ other.exited <=> pc = "exited"
                /\ \A l \in other.returns :
                       Range(l) = Range(bioproject_ids)

\* A run over three keywords, not in the order of KEYWORDS, whose answers
\* differ, returned both identifiers.
C13_Witness ==
    /\ SearchReturned
    /\ Len(keywords) = 3
    /\ keywords[1] = KEYWORDS[3]
    /\ esearch[KEYWORDS[1]].idlist = <<"801993">>
    /\ esearch[KEYWORDS[2]].idlist = <<"801992", "801992">>
    /\ esearch[KEYWORDS[3]].idlist = <<>>
    /\ Range(bioproject_ids) = {"801993", "801992"}

(***************************************************************************)
(* C15: when every search request answers 200, the identifiers returned    *)
(* are exactly those of the idlists of the keywords: each identifier of    *)
(* any idlist is returned, and none is returned that no idlist holds.      *)
(***************************************************************************)
C15_ReturnsTheUnion ==
    SearchReturned =>
        /\ \A k \in 1..Len(keywords) : esearch[keywords[k]].status_code = 200
        /\ Range(bioproject_ids) =
               UNION {Range(esearch[keywords[k]].idlist) :
                          k \in 1..Len(keywords)}

\* Three keywords answered <<801993>>, <<>> and <<801992, 801993>>: both
\* identifiers were returned.
C15_Witness ==
    /\ SearchReturned
    /\ keywords = SubSeq(KEYWORDS, 1, 3)
    /\ esearch[KEYWORDS[1]].idlist = <<"801993">>
    /\ esearch[KEYWORDS[2]].idlist = <<>>
    /\ esearch[KEYWORDS[3]].idlist = <<"801992", "801993">>
    /\ Len(bioproject_ids) = 2

(***************************************************************************)
(* The run under the scheduling of a sequential program: as long as a      *)
(* step is possible, one is taken (every request returns or raises).       *)
(***************************************************************************)
FairSpec == Spec /\ WF_vars(Next)

\* The Entrez.efetch calls of the places up to n.
RECURSIVE CallsUpTo(_)
CallsUpTo(n) == IF n = 0 THEN 0 ELSE efetch_calls[n] + CallsUpTo(n - 1)

\* The run is over: main has written its files, or the search called exit.
Terminated == pc \in {"done", "exited"}

(***************************************************************************)
(* C14: every run terminates, by the end of main or by the exit of the     *)
(* search, whatever fetches raise; no identifier gets more than 3 fetch    *)
(* attempts, so there are at most 3 times as many attempts as identifiers. *)
(***************************************************************************)
C14_TerminatesWithBoundedFetches ==
    /\ [](\A k \in DOMAIN efetch_calls : efetch_calls[k] <= 3)
    /\ [](CallsUpTo(Len(efetch_calls)) <= 3 * Len(bioproject_ids))
    /\ <>Terminated

\* A run ended after one attempt for the first identifier and three
\* raising attempts for the second.
C14_Witness ==
    /\ pc = "done"
    /\ efetch_calls = <<1, 3>>
    /\ efetch_ok = <<1, 0>>

(***************************************************************************)
(* Vocabulary of the properties on the identifiers processed.              *)
(***************************************************************************)
\* The outer loop has ended its iteration for place k: by a store, by a
\* recorded failure, or by the break after the last attempt.
Processed(k) == k < id_idx /\ efetch_calls[k] > 0

ProcessedSoFar == {k \in Places : Processed(k)}

\* The identifier at place k is the source of an entry of the result map.
SourceOfResult(k) == ResultWrites(k) # <<>>

(***************************************************************************)
(* C16: at every point of convert_ids_to_accessions, an identifier         *)
(* processed so far has caused at most one map write (and one not yet      *)
(* processed none); the keys of the failure map are input identifiers; no  *)
(* identifier is both a key of the failure map and the source of an entry  *)
(* of the result map; and the two maps together hold no more entries than  *)
(* identifiers have been processed.                                        *)
(***************************************************************************)
C16_OneWritePerIdentifier ==
    /\ \A k \in Places :
           Len(map_writes[k]) <= (IF Processed(k) THEN 1 ELSE 0)
    /\ DictKeys(failed_bioprojects) \subseteq Range(bioproject_ids)
    /\ \A k \in Places :
           ~(DictHas(failed_bioprojects, bioproject_ids[k])
               /\ SourceOfResult(k))
    /\ Len(bioproject_accessions) + Len(failed_bioprojects)
           <= Cardinality(ProcessedSoFar)

\* The resolver has returned with two identifiers processed: the first is
\* the source of the one entry of the result map, the second the one key of
\* the failure map.
C16_Witness ==
    /\ pc = "write"
    /\ Cardinality(ProcessedSoFar) = 2
    /\ SourceOfResult(1)
    /\ FailedWrites(2) # <<>>
    /\ Len(bioproject_accessions) = 1
    /\ DictKeys(failed_bioprojects) = {bioproject_ids[2]}

====
